---- MODULE Spec2Model ----
(***************************************************************************)
(* Model of psfFitting (src/_psfFitting/psfFitting.py): the weighted       *)
(* least-squares PSF fit with optional fixed parameters.                   *)
(*                                                                         *)
(* Numbers are carried in half units: the integer v stands for v/2, so an  *)
(* odd v is a value with a fractional part (1 is 0.5, 3 is 1.5) and an     *)
(* even v is a whole number.  An array of dtype "int64" holds even values  *)
(* only; storing into it truncates toward zero, as numpy does.             *)
(* Sequences are 1-based: index i here is numpy index i-1.                 *)
(***************************************************************************)
EXTENDS Integers, Sequences, FiniteSets, TLC

\* ------------------------------------------------------------- bounds
MaxN == 2          \* longest parameter vector x0
MaxVal == 2        \* largest parameter value (half units)
MaxDim == 3        \* largest number of rows / columns of an image
MaxCalls == 4      \* most residual evaluations the solver makes in one run

\* ---------------------------------------------------------- constants
TickPeriod == 3    \* CostClass.__call__: (self.iter%3)==0

Vals == 0..MaxVal
Dtypes == {"int64", "float64"}
Methods == {"trf", "dogbox", "lm"}
Verbosity == {0, 1, 2}
Dims == 1..MaxDim
Shapes == [h : Dims, w : Dims]

None == [given |-> FALSE]
Some(v) == [given |-> TRUE, v |-> v]

VARIABLES
    image,        \* shape [h, w] of the image argument
    weights,      \* None or Some(shape) : the weights argument
    x0,           \* the initial guess, a sequence of values
    x0_dtype,     \* dtype numpy gives np.copy(x0)
    fixed,        \* None or Some(mask) : the fixed argument
    method,       \* the method argument
    verbose,      \* the verbose argument
    bounds,       \* psfModelInst.bounds : <<lower, upper>>
    pc,           \* position in psfFitting
    exc,          \* None or Some([type, line]) : the exception raised
    iter,         \* CostClass.iter
    tick,         \* did the latest cost call print "-"
    y,            \* reduced vector of the latest cost call / solver output
    modelArg,     \* None or Some(x) : argument of the latest psfModelInst call
    nSolver,      \* number of least_squares invocations
    solverMethod, \* method passed to least_squares
    solverBounds, \* None or Some(<<low, up>>) : bounds passed to least_squares
    result,       \* the result object
    arg,          \* argument of a direct call of a mapper
    ret           \* what that call returned

inputs == <<image, weights, x0, x0_dtype, fixed, method, verbose, bounds>>
solver == <<nSolver, solverMethod, solverBounds>>
cost == <<iter, tick, y, modelArg>>
probe == <<arg, ret>>
vars == <<inputs, pc, exc, cost, solver, result, probe>>

\* ------------------------------------------------------ numpy helpers
\* Storing v into an array of the given dtype: int64 truncates toward zero
Cast(dtype, v) ==
    IF dtype = "float64" THEN v
    ELSE IF v >= 0 THEN 2 * (v \div 2) ELSE -(2 * ((-v) \div 2))

\* np.where(b)[0] : the indices where b holds, scanned in increasing order
RECURSIVE WhereFrom(_, _)
WhereFrom(b, i) ==
    IF i > Len(b) THEN <<>>
    ELSE IF b[i] THEN <<i>> \o WhereFrom(b, i + 1)
    ELSE WhereFrom(b, i + 1)

Where(b) == WhereFrom(b, 1)

\* np.take(a, ind)
Take(a, ind) == [k \in 1..Len(ind) |-> a[ind[k]]]

\* shapes broadcast together when equal or 1 in each dimension
Broadcastable(s, t) ==
    /\ (s.h = t.h \/ s.h = 1 \/ t.h = 1)
    /\ (s.w = t.w \/ s.w = 1 \/ t.w = 1)

\* len() of a 2-D array is its number of rows
PyLen(s) == s.h

\* ---------------------------------------------------------- closures
\* FREE = [not fixed[i] for i in range(len(fixed))]
FREE == [i \in 1..Len(fixed.v) |-> ~fixed.v[i]]

\* INDFREE = np.where(FREE)[0]
INDFREE == Where(FREE)

\* get_bounds with the upper bounds left at full length
get_bounds_upNotReduced ==
    LET b_low == IF fixed.given THEN Take(bounds[1], INDFREE) ELSE bounds[1]
    IN  <<b_low, bounds[2]>>

get_bounds ==
    LET b_low == IF fixed.given THEN Take(bounds[1], INDFREE) ELSE bounds[1]
        b_up  == IF fixed.given THEN Take(bounds[2], INDFREE) ELSE bounds[2]
    IN  <<b_low, b_up>>

input2mini(x) ==
    IF ~fixed.given THEN x ELSE Take(x, INDFREE)

\* the store loop writing at i instead of INDFREE[i]
RECURSIVE StoreAtK(_, _, _)
StoreAtK(xall, v, k) ==
    IF k > Len(v) THEN xall
    ELSE StoreAtK([xall EXCEPT ![k] = Cast(x0_dtype, v[k])], v, k + 1)

\* for i in range(len(y)): xall[INDFREE[i]] = y[i]
\* (xall keeps the dtype of x0, so each store casts)
RECURSIVE Store(_, _, _)
Store(xall, v, k) ==
    IF k > Len(v) THEN xall
    ELSE Store([xall EXCEPT ![INDFREE[k]] = Cast(x0_dtype, v[k])], v, k + 1)

mini2input(v, forceZero) ==
    IF ~fixed.given THEN v
    ELSE LET xall == IF forceZero THEN [i \in 1..Len(x0) |-> 0] ELSE x0
         IN  Store(xall, v, 1)

\* number of parameters the solver sees
NFree == Len(input2mini(x0))

\* ------------------------------------------------------------- inputs
Vectors(n) == [1..n -> Vals]
Masks(n) == [1..n -> BOOLEAN]
Lens == 1..MaxN

\* a Python list of ints copies to an int64 array, anything else to float64
WholeVector(x) == \A i \in 1..Len(x) : Cast("int64", x[i]) = x[i]

\* initial guesses of length n: the constant vectors and the vectors whose
\* neighbours differ, every value at every index
Guesses(n) ==
    {[i \in 1..n |-> c] : c \in Vals}
        \cup {[i \in 1..n |-> (c + i) % (MaxVal + 1)] : c \in Vals}

\* the model's declared bounds, lower < upper at every index and different
\* from one index to the next: a narrow pair and a wide pair
NarrowBounds(n) == <<[i \in 1..n |-> i - 1], [i \in 1..n |-> i + 1]>>
WideBounds(n) == <<[i \in 1..n |-> 0 - i], [i \in 1..n |-> MaxVal + i]>>

InBounds(x, b) == \A k \in 1..Len(x) : b[1][k] <= x[k] /\ x[k] <= b[2][k]

\* half-widths the confidence-interval routine may return for n parameters:
\* every value occurs at every index, neighbours differ
HalfWidths(n) == {[k \in 1..n |-> (c + k) % (MaxVal + 1)] : c \in Vals}

NoResult ==
    [attrs |-> {}, x |-> <<>>, success |-> FALSE, status |-> 0, nfev |-> 0,
     xinit |-> <<>>, im_fit |-> <<>>, xerr |-> <<>>]

NoCall == [op |-> "none"]

InitLocals ==
    /\ exc = None
    /\ iter = 0
    /\ tick = FALSE
    /\ y = <<>>
    /\ modelArg = None
    /\ nSolver = 0
    /\ solverMethod = "none"
    /\ solverBounds = None
    /\ result = NoResult
    /\ arg = NoCall
    /\ ret = <<>>

AnyFixed == {None} \cup {Some(m) : m \in UNION {Masks(n) : n \in Lens}}

\* fits over the initial guesses, every dtype and every mask, the weights
\* left out
Init ==
    /\ image = [h |-> MaxDim, w |-> MaxDim]
    /\ weights = None
    /\ \E n \in Lens : x0 \in Guesses(n) /\ bounds = WideBounds(n)
    /\ x0_dtype \in Dtypes
    /\ x0_dtype = "int64" => WholeVector(x0)
    /\ fixed \in AnyFixed
    /\ method \in {"trf", "lm"}
    /\ verbose = 0
    /\ pc = "weights"
    /\ InitLocals

\* fits over every method, verbosity and bounds, the guess a constant vector
InitDispatch ==
    /\ image = [h |-> MaxDim, w |-> MaxDim]
    /\ weights = None
    /\ \E n \in Lens :
          /\ x0 \in {[i \in 1..n |-> c] : c \in Vals}
          /\ bounds \in {NarrowBounds(n), WideBounds(n)}
          /\ fixed \in {None} \cup {Some(m) : m \in Masks(n)}
    /\ x0_dtype = "float64"
    /\ method \in Methods
    /\ verbose \in Verbosity
    /\ pc = "weights"
    /\ InitLocals

\* fits over every image and weights shape
InitShapes ==
    /\ image \in Shapes
    /\ weights \in {None} \cup {Some(s) : s \in Shapes}
    /\ x0 = [i \in 1..MaxN |-> MaxVal]
    /\ bounds = WideBounds(MaxN)
    /\ x0_dtype = "float64"
    /\ fixed \in {None, Some([i \in 1..MaxN |-> i = 1])}
    /\ method \in {"trf", "lm"}
    /\ verbose = 0
    /\ pc = "weights"
    /\ InitLocals

\* the closures alone, past the checks of psfFitting
InitMapper ==
    /\ image = [h |-> MaxDim, w |-> MaxDim]
    /\ weights = None
    /\ \E n \in Lens :
          /\ x0 \in Vectors(n)
          /\ bounds \in {NarrowBounds(n), WideBounds(n)}
          /\ fixed \in {None} \cup {Some(m) : m \in Masks(n)}
    /\ x0_dtype \in Dtypes
    /\ x0_dtype = "int64" => WholeVector(x0)
    /\ method = "trf"
    /\ verbose = 0
    /\ pc = "closures"
    /\ InitLocals

\* ------------------------------------------------------------ actions
Raise(line) ==
    /\ exc' = Some([type |-> "ValueError", line |-> line])
    /\ pc' = "raised"

\* lines 86-88
CheckWeights ==
    /\ pc = "weights"
    /\ IF weights.given /\ PyLen(image) # PyLen(weights.v)
       THEN Raise(87)
       ELSE pc' = "bounds" /\ exc' = exc
    /\ UNCHANGED <<inputs, cost, solver, result, probe>>

\* shape of sqW = np.sqrt(weights)
sqW == IF weights.given THEN weights.v ELSE image

\* the length check rejecting only a mask longer than x0
DefineBounds_onlyLonger ==
    /\ pc = "bounds"
    /\ IF fixed.given /\ Len(fixed.v) > Len(x0)
       THEN Raise(103)
       ELSE pc' = "minimize" /\ exc' = exc
    /\ UNCHANGED <<inputs, cost, solver, result, probe>>

\* lines 101-105
DefineBounds ==
    /\ pc = "bounds"
    /\ IF fixed.given /\ Len(fixed.v) # Len(x0)
       THEN Raise(103)
       ELSE pc' = "minimize" /\ exc' = exc
    /\ UNCHANGED <<inputs, cost, solver, result, probe>>

\* the dispatch handing dogbox and its bounds through to the solver
Minimize_passesMethod ==
    /\ pc = "minimize"
    /\ nSolver' = nSolver + 1
    /\ IF method \in {"trf", "dogbox"}
       THEN /\ solverMethod' = method
            /\ solverBounds' = Some(get_bounds)
            /\ IF InBounds(input2mini(x0), get_bounds)
               THEN pc' = "solving" /\ exc' = exc
               ELSE Raise(135)
       ELSE /\ solverMethod' = "lm"
            /\ solverBounds' = None
            /\ pc' = "solving" /\ exc' = exc
    /\ UNCHANGED <<inputs, cost, result, probe>>

\* lines 134-139 : the call of least_squares; the trust-region solver
\* refuses a start outside its bounds
Minimize ==
    /\ pc = "minimize"
    /\ nSolver' = nSolver + 1
    /\ IF method = "trf"
       THEN /\ solverMethod' = "trf"
            /\ solverBounds' = Some(get_bounds)
            /\ IF InBounds(input2mini(x0), get_bounds)
               THEN pc' = "solving" /\ exc' = exc
               ELSE Raise(135)
       ELSE /\ solverMethod' = "lm"
            /\ solverBounds' = None
            /\ pc' = "solving" /\ exc' = exc
    /\ UNCHANGED <<inputs, cost, result, probe>>

\* the points the running solver may try or return
Feasible(v) == solverBounds.given => InBounds(v, solverBounds.v)

\* the tick condition with "and" for "or"
Ticks_and(it) == (it % TickPeriod) = 0 /\ (method = "lm" /\ verbose # 2)

\* line 95 : is "-" printed by the call made when self.iter = it
Ticks(it) == (it % TickPeriod) = 0 /\ (method = "lm" \/ verbose # 2)

\* lines 94-98 : one call of cost by the solver
CostCall ==
    /\ pc = "solving"
    /\ iter < MaxCalls
    /\ \E v \in Vectors(NFree) :
          /\ Feasible(v)
          /\ tick' = Ticks(iter)
          /\ iter' = iter + 1
          /\ y' = v
          /\ modelArg' = Some(mini2input(v, FALSE))
          /\ IF Broadcastable(sqW, image)
             THEN pc' = pc /\ exc' = exc
             ELSE Raise(98)
    /\ UNCHANGED <<inputs, solver, result, probe>>

\* a solver stopped at max_nfev being run again
SolverReturn_retry ==
    /\ pc = "solving"
    /\ iter >= 1
    /\ \E st \in {0, 1} :
          /\ result' = [result EXCEPT
                 !.attrs = {"x", "success", "status", "message", "nfev", "cost",
                            "fun", "jac", "xinit", "im_sky"},
                 !.x = mini2input(y, FALSE),
                 !.success = (st > 0),
                 !.status = st,
                 !.nfev = iter,
                 !.xinit = x0]
          /\ pc' = IF st > 0 THEN "quality" ELSE "minimize"
    /\ UNCHANGED <<inputs, exc, cost, solver, probe>>

\* lines 134-144 : least_squares returns the point of its latest evaluation,
\* converged (status 1) or stopped at max_nfev (status 0), and the result is
\* updated
SolverReturn ==
    /\ pc = "solving"
    /\ iter >= 1
    /\ \E st \in {0, 1} :
          result' = [result EXCEPT
              !.attrs = {"x", "success", "status", "message", "nfev", "cost",
                         "fun", "jac", "xinit", "im_sky"},
              !.x = mini2input(y, FALSE),
              !.success = (st > 0),
              !.status = st,
              !.nfev = iter,
              !.xinit = x0]
    /\ pc' = "quality"
    /\ UNCHANGED <<inputs, exc, cost, solver, probe>>

\* lines 145, 152-172
evaluateFittingQuality ==
    /\ pc = "quality"
    /\ modelArg' = Some(result.x)
    /\ result' = [result EXCEPT
           !.attrs = @ \cup {"im_fit", "SR_sky", "SR_fit", "FWHMx_sky",
                             "FWHMy_sky", "FWHMx_fit", "FWHMy_fit",
                             "mse", "mae", "fvu"},
           !.im_fit = result.x]
    /\ pc' = "interval"
    /\ UNCHANGED <<inputs, exc, iter, tick, y, solver, probe>>

\* lines 147-149
ConfidenceInterval ==
    /\ pc = "interval"
    /\ \E ci \in HalfWidths(NFree) :
          /\ arg' = [op |-> "confidence_interval", x |-> ci]
          /\ result' = [result EXCEPT
                 !.attrs = @ \cup {"xerr"},
                 !.xerr = mini2input(ci, FALSE)]
    /\ pc' = "done"
    /\ UNCHANGED <<inputs, exc, cost, solver, ret>>

Next ==
    \/ CheckWeights
    \/ DefineBounds
    \/ Minimize
    \/ CostCall
    \/ SolverReturn
    \/ evaluateFittingQuality
    \/ ConfidenceInterval

\* ------------------------------------- the closures, each called once alone
CallInput2mini ==
    /\ pc = "closures"
    /\ \E x \in Vectors(Len(x0)) :
          /\ arg' = [op |-> "input2mini", x |-> x]
          /\ ret' = input2mini(x)
    /\ pc' = "returned"
    /\ UNCHANGED <<inputs, exc, cost, solver, result>>

CallMini2input ==
    /\ pc = "closures"
    /\ \E v \in Vectors(NFree), z \in BOOLEAN :
          /\ arg' = [op |-> "mini2input", x |-> v, forceZero |-> z]
          /\ ret' = mini2input(v, z)
    /\ pc' = "returned"
    /\ UNCHANGED <<inputs, exc, cost, solver, result>>

CallRoundTrip ==
    /\ pc = "closures"
    /\ \E x \in Vectors(Len(x0)) :
          /\ arg' = [op |-> "roundtrip", x |-> x]
          /\ ret' = mini2input(input2mini(x), FALSE)
    /\ pc' = "returned"
    /\ UNCHANGED <<inputs, exc, cost, solver, result>>

CallGetBounds ==
    /\ pc = "closures"
    /\ arg' = [op |-> "get_bounds"]
    /\ ret' = get_bounds
    /\ pc' = "returned"
    /\ UNCHANGED <<inputs, exc, cost, solver, result>>

NextMapper ==
    \/ CallInput2mini
    \/ CallMini2input
    \/ CallRoundTrip
    \/ CallGetBounds

Spec == Init /\ [][Next]_vars
SpecDispatch == InitDispatch /\ [][Next]_vars
SpecShapes == InitShapes /\ [][Next]_vars
SpecMapper == InitMapper /\ [][NextMapper]_vars

\* ------------------------------------------------------------- claims
\* the free indices, and the place of one among them, counted rather than
\* scanned
FreeSet == {i \in 1..Len(x0) : ~fixed.given \/ ~fixed.v[i]}
Rank(i) == Cardinality({j \in FreeSet : j <= i})
KthFree(k) == CHOOSE i \in FreeSet : Rank(i) = k
ReducedBounds ==
    <<[k \in 1..Cardinality(FreeSet) |-> bounds[1][KthFree(k)]],
      [k \in 1..Cardinality(FreeSet) |-> bounds[2][KthFree(k)]]>>
\* number of elements of an array of shape s
Size(s) == s.h * s.w
Metrics ==
    {"im_fit", "SR_sky", "SR_fit", "FWHMx_sky", "FWHMy_sky", "FWHMx_fit",
     "FWHMy_fit", "mse", "mae", "fvu"}

\* C1 : in a returned result, every fixed entry of result.x equals the entry
\* of x0, whatever points the solver tried and returned
FixedInvariance ==
    (pc = "done" /\ fixed.given) =>
        /\ Len(result.x) = Len(x0)
        /\ \A i \in 1..Len(x0) : fixed.v[i] => result.x[i] = x0[i]

\* a returned fit that held a nonzero entry fixed and moved a free one
FixedInvarianceWitness ==
    /\ pc = "done"
    /\ fixed.given
    /\ iter >= 2
    /\ \E i \in 1..Len(x0) : fixed.v[i] /\ x0[i] # 0
    /\ \E i \in 1..Len(x0) : ~fixed.v[i] /\ result.x[i] # x0[i]

\* C2 : weights whose element count differs from the image's never reach the
\* solver and never yield a result
WeightsCountChecked ==
    (weights.given /\ Size(weights.v) # Size(image)) =>
        /\ nSolver = 0
        /\ ~modelArg.given
        /\ pc # "done"

\* C3 : a mask whose length differs from x0's raises ValueError before any
\* solver call and any model call, and leaves no result
FixedLengthChecked ==
    (fixed.given /\ Len(fixed.v) # Len(x0)) =>
        /\ nSolver = 0
        /\ iter = 0
        /\ ~modelArg.given
        /\ result = NoResult
        /\ pc \in {"weights", "bounds", "raised"}
        /\ pc = "raised" => exc.v.type = "ValueError"

\* a call with a mask shorter than x0, stopped at the length check
FixedLengthCheckedWitness ==
    /\ pc = "raised"
    /\ fixed.given
    /\ Len(fixed.v) < Len(x0)
    /\ exc = Some([type |-> "ValueError", line |-> 103])

\* C4 : mini2input(input2mini(x)) is x at the free indices and x0 at the
\* fixed ones (the identity without a mask)
MapperRoundTrip ==
    arg.op = "roundtrip" =>
        ret = [i \in 1..Len(x0) |-> IF i \in FreeSet THEN arg.x[i] ELSE x0[i]]

\* the round trip over a float64 x0, where no store truncates
MapperRoundTripFloat64 == x0_dtype = "float64" => MapperRoundTrip

\* C5 : get_bounds returns lower and upper sequences as long as there are
\* free parameters, the k-th entry the full bound at the k-th free index in
\* increasing order; without a mask, the full bounds
BoundsReduction ==
    arg.op = "get_bounds" =>
        /\ Len(ret[1]) = Len(x0) - Cardinality({i \in 1..Len(x0) : i \notin FreeSet})
        /\ Len(ret[2]) = Len(ret[1])
        /\ \A k \in 1..Len(ret[1]) :
              /\ ret[1][k] = bounds[1][KthFree(k)]
              /\ ret[2][k] = bounds[2][KthFree(k)]
        /\ \A k \in 1..(Len(ret[1]) - 1) : KthFree(k) < KthFree(k + 1)
        /\ ~fixed.given => ret = bounds

\* bounds reduced under a mask that fixes the first parameter and frees a
\* later one
BoundsReductionWitness ==
    /\ arg.op = "get_bounds"
    /\ fixed.given
    /\ fixed.v[1]
    /\ Len(ret[1]) >= 1
    /\ ret[1][1] # bounds[1][1]

\* C6 : once the solver has returned without converging, nothing is raised
\* and the solver is not run again; the result carries success = false with
\* status, message, nfev and cost, the full-length x and, when returned, the
\* quality metrics and xerr
NonConvergenceReturned ==
    ("success" \in result.attrs /\ ~result.success) =>
        /\ pc \in {"quality", "interval", "done"}
        /\ exc = None
        /\ nSolver = 1
        /\ {"status", "message", "nfev", "cost"} \subseteq result.attrs
        /\ result.nfev = iter
        /\ Len(result.x) = Len(x0)
        /\ pc = "done" =>
              /\ Metrics \cup {"xerr"} \subseteq result.attrs
              /\ Len(result.xerr) = Len(x0)

\* a fit returned after the solver used up its evaluations
NonConvergenceReturnedWitness ==
    /\ pc = "done"
    /\ ~result.success
    /\ result.status = 0
    /\ result.nfev = MaxCalls

\* C7 : result.xerr has length N, holds the half-width of the k-th free
\* parameter at the k-th free index and x0 at the fixed indices
XerrExpanded ==
    pc = "done" =>
        result.xerr = [i \in 1..Len(x0) |->
                          IF i \in FreeSet THEN arg.x[Rank(i)] ELSE x0[i]]

\* xerr over a float64 x0, where no store truncates
XerrExpandedFloat64 == x0_dtype = "float64" => XerrExpanded

TickRule ==
    /\ iter = 0
    /\ [][iter' # iter =>
            /\ iter' = iter + 1
            /\ tick' = (iter % 3 = 0 /\ (method = "lm" \/ verbose # 2))]_vars

\* the fourth call of a quiet trf fit prints a tick
TickRuleWitness ==
    /\ iter = 4
    /\ tick
    /\ method = "trf"
    /\ verbose = 0

\* C9 as stated : a tick is printed only on every 3rd call, only under
\* non-quiet verbosity and only when the method is not trf
TickOnlyNonTrf ==
    tick => ((iter - 1) % 3 = 0 /\ verbose # 0 /\ method # "trf")

\* C10 : under a mask every model call gets a vector of length N, x0 at the
\* fixed indices and the solver's reduced vector at the free ones in order;
\* result.xinit is the x0 passed in
ModelArgument ==
    /\ (fixed.given /\ modelArg.given) =>
          modelArg.v = [i \in 1..Len(x0) |->
                           IF fixed.v[i] THEN x0[i] ELSE y[Rank(i)]]
    /\ "xinit" \in result.attrs => result.xinit = x0

\* the model argument over a float64 x0, where no store truncates
ModelArgumentFloat64 == x0_dtype = "float64" => ModelArgument

====
